---- MODULE Spec2Model ----
(***************************************************************************)
(* Model of the Hacker News "newest" ordering validator.                   *)
(*   src/index.js          the script with retry, screenshots and re-throw *)
(*   src/unnamed/part_000  the earlier, simpler variant of the same script *)
(*                                                                         *)
(* Strings are sequences of one-character strings.  Instants and durations *)
(* are milliseconds held as <<seconds, millis>> with 0 <= millis < 1000,   *)
(* so that the month and year multipliers (more than 2^31 ms) stay exact.  *)
(* A JavaScript number is [nan, v]; a Date is [valid, t].                  *)
(***************************************************************************)
EXTENDS Integers, Sequences, FiniteSets, TLC

VARIABLES
    variant,        \* which script runs: "index" (src/index.js) or "part000"
    pc,             \* position of validateHNSorting
    clock,          \* the wall clock, <<seconds, millis>>
    ticks,          \* how many times the clock moved between two awaits
    site,           \* the listing as served: sequence of [title, timeText]
    browser,        \* "none", "open" or "closed"
    closeCount,     \* calls of browser.close()
    pageDefined,    \* whether the variable `page` has been assigned
    retryI,         \* loop variable i of retry
    fnCalls,        \* calls of fn made by each use of retry
    delays,         \* the delays each use of retry has waited, in ms
    rows,           \* result of page.locator('tr.athing').all()
    articles,       \* the collected [title, timeText, timestamp, parsedAt]
    loopI,          \* loop variable i of the scan
    isSorted,
    sortingErrors,
    compared,       \* indices i whose pair (i-1, i) the scan has examined
    log,            \* what logger / console wrote, in order
    shots,          \* captureScreenshot calls: [name, ok]
    error,          \* the exception in flight, "none" when there is none
    outcome,        \* promise of validateHNSorting: "pending", "resolved", "rejected"
    exitCode,       \* process exit status, -1 while the process runs
    input,          \* parser harness: how the label was written
    timeText,       \* parser harness: the label handed to parseTimeAgo
    refNow,         \* parser harness: the value `new Date()` gives inside the call
    result          \* parser harness: "pending" or [date, logged]

vars == <<variant, pc, clock, ticks, site, browser, closeCount, pageDefined,
          retryI, fnCalls, delays, rows, articles, loopI, isSorted,
          sortingErrors, compared, log, shots, error, outcome, exitCode,
          input, timeText, refNow, result>>

runVars == <<pc, clock, ticks, site, browser, closeCount, pageDefined,
             retryI, fnCalls, delays, rows, articles, loopI, isSorted,
             sortingErrors, compared, log, shots, error, outcome, exitCode>>

harnessVars == <<input, timeText, refNow, result>>

(***************************************************************************)
(* Bounds of the model.                                                    *)
(***************************************************************************)
MaxMagnitude == 11      \* labels carry the numbers 0..MaxMagnitude
MaxRows == 3            \* rows of the served listing
MaxTicks == 2           \* clock movements between awaits within one run

(***************************************************************************)
(* CONFIG (src/index.js:6-14).                                             *)
(***************************************************************************)
maxRetries == 3
retryDelay == 1000
articleLimit == 100

(***************************************************************************)
(* Characters and strings.                                                 *)
(***************************************************************************)
DigitChars == <<"0", "1", "2", "3", "4", "5", "6", "7", "8", "9">>
LowerChars == <<"a", "b", "c", "d", "e", "f", "g", "h", "i", "j", "k", "l", "m",
                "n", "o", "p", "q", "r", "s", "t", "u", "v", "w", "x", "y", "z">>
UpperChars == <<"A", "B", "C", "D", "E", "F", "G", "H", "I", "J", "K", "L", "M",
                "N", "O", "P", "Q", "R", "S", "T", "U", "V", "W", "X", "Y", "Z">>

Range(s) == {s[k] : k \in DOMAIN s}

\* \d, [a-zA-Z] and \s of the regular expression
IsDigit(c) == c \in Range(DigitChars)
IsLetter(c) == c \in Range(LowerChars) \cup Range(UpperChars)
IsSpace(c) == c \in {" ", "\t", "\n"}

SubStr(s, from, to) == [k \in 1..(to - from + 1) |-> s[from + k - 1]]

\* String.prototype.toLowerCase
toLowerCase(s) ==
    [k \in DOMAIN s |->
        IF s[k] \in Range(UpperChars)
        THEN LowerChars[CHOOSE j \in DOMAIN UpperChars : UpperChars[j] = s[k]]
        ELSE s[k]]

\* String.prototype.includes
Includes(s, w) ==
    \E from \in 1..(Len(s) - Len(w) + 1) : SubStr(s, from, from + Len(w) - 1) = w

\* unit.replace(/s$/, '')
StripTrailingS(s) ==
    IF Len(s) > 0 /\ s[Len(s)] = "s" THEN SubStr(s, 1, Len(s) - 1) ELSE s

(***************************************************************************)
(* JavaScript numbers, durations and Dates.                                *)
(***************************************************************************)
NaN == [nan |-> TRUE, v |-> 0]
Num(n) == [nan |-> FALSE, v |-> n]

Normalize(t) == <<t[1] + (t[2] \div 1000), t[2] % 1000>>
Millis(n) == Normalize(<<0, n>>)
MsAdd(a, b) == Normalize(<<a[1] + b[1], a[2] + b[2]>>)
MsSub(a, b) == Normalize(<<a[1] - b[1], a[2] - b[2]>>)
MsScale(n, m) == Normalize(<<n * m[1], n * m[2]>>)
MsLess(a, b) == a[1] < b[1] \/ (a[1] = b[1] /\ a[2] < b[2])

InvalidDate == [valid |-> FALSE, t |-> <<0, 0>>]
Date(t) == [valid |-> TRUE, t |-> t]

\* The digits at the start of s, as far as they go
RECURSIVE DigitRunEnd(_, _)
DigitRunEnd(s, k) ==
    IF k <= Len(s) /\ IsDigit(s[k]) THEN DigitRunEnd(s, k + 1) ELSE k

RECURSIVE DigitsValue(_)
DigitsValue(ds) ==
    IF ds = <<>> THEN 0
    ELSE 10 * DigitsValue(SubStr(ds, 1, Len(ds) - 1))
         + ((CHOOSE j \in DOMAIN DigitChars : DigitChars[j] = ds[Len(ds)]) - 1)

RECURSIVE SkipSpaces(_, _)
SkipSpaces(s, k) ==
    IF k <= Len(s) /\ IsSpace(s[k]) THEN SkipSpaces(s, k + 1) ELSE k

\* parseInt(string): leading white space, then the longest run of digits;
\* NaN when there is no digit there.  (No label of the model carries a sign.)
parseInt(s) ==
    LET from == SkipSpaces(s, 1)
        to == DigitRunEnd(s, from)
    IN  IF to = from THEN NaN ELSE Num(DigitsValue(SubStr(s, from, to - 1)))

(***************************************************************************)
(* parseTimeAgo of src/index.js.                                           *)
(***************************************************************************)
K_minute == <<"m", "i", "n", "u", "t", "e">>
K_hour == <<"h", "o", "u", "r">>
K_day == <<"d", "a", "y">>
K_month == <<"m", "o", "n", "t", "h">>
K_year == <<"y", "e", "a", "r">>
K_constructor == <<"c", "o", "n", "s", "t", "r", "u", "c", "t", "o", "r">>

\* timeText.match(/(\d+)\s*([a-zA-Z]+)/): the leftmost run of digits that is
\* followed, after any white space, by a letter.  A shorter run of digits or
\* of white space can only be followed by a digit or a space, so the regular
\* expression's backtracking finds nothing the longest runs do not.
RECURSIVE LetterRunEnd(_, _)
LetterRunEnd(s, k) ==
    IF k <= Len(s) /\ IsLetter(s[k]) THEN LetterRunEnd(s, k + 1) ELSE k

MatchAt(s, k) ==
    LET d == DigitRunEnd(s, k)
        w == SkipSpaces(s, d)
    IN  IsDigit(s[k]) /\ w <= Len(s) /\ IsLetter(s[w])

RegexMatch(s) ==
    IF \E k \in DOMAIN s : MatchAt(s, k)
    THEN LET k == CHOOSE k \in DOMAIN s :
                     MatchAt(s, k) /\ \A j \in 1..(k - 1) : ~MatchAt(s, j)
             d == DigitRunEnd(s, k)
             w == SkipSpaces(s, d)
         IN  [found |-> TRUE,
              number |-> SubStr(s, k, d - 1),
              unit |-> SubStr(s, w, LetterRunEnd(s, w) - 1)]
    ELSE [found |-> FALSE, number |-> <<>>, unit |-> <<>>]

\* The object literal of lines 147-153; the products are in seconds, the
\* trailing "* 1000" makes them milliseconds.
Times1000(seconds) == <<seconds, 0>>

multipliers_month31 ==
    [minute |-> Times1000(60),
     hour |-> Times1000(60 * 60),
     day |-> Times1000(24 * 60 * 60),
     month |-> Times1000(31 * 24 * 60 * 60),
     year |-> Times1000(365 * 24 * 60 * 60)]

multipliers ==
    [minute |-> Times1000(60),
     hour |-> Times1000(60 * 60),
     day |-> Times1000(24 * 60 * 60),
     month |-> Times1000(30 * 24 * 60 * 60),
     year |-> Times1000(365 * 24 * 60 * 60)]

\* multipliers[normalizedUnit]: an own property, else what Object.prototype
\* holds under that name (of the names made of lower-case letters only, that
\* is `constructor`, a function), else undefined.
PropertyOfMultipliers(key) ==
    CASE key = K_minute -> [kind |-> "number", ms |-> multipliers.minute]
      [] key = K_hour -> [kind |-> "number", ms |-> multipliers.hour]
      [] key = K_day -> [kind |-> "number", ms |-> multipliers.day]
      [] key = K_month -> [kind |-> "number", ms |-> multipliers.month]
      [] key = K_year -> [kind |-> "number", ms |-> multipliers.year]
      [] key = K_constructor -> [kind |-> "function", ms |-> <<0, 0>>]
      [] OTHER -> [kind |-> "undefined", ms |-> <<0, 0>>]

\* new Date(now - value * multiplier); a NaN operand gives an Invalid Date
DateBefore(now, value, multiplier) ==
    IF value.nan \/ multiplier.kind # "number"
    THEN InvalidDate
    ELSE Date(MsSub(now, MsScale(value.v, multiplier.ms)))

\* One line of output: logger.log / .info / .error, console.log / .error
Line(level, msg, arg) == [level |-> level, msg |-> msg, arg |-> arg]

UnknownUnitError(unit, text) == Line("error", "Unknown time unit", <<unit, text>>)

\* Returns the Date and what the call wrote to the logger.
parseTimeAgo(text, now) ==
    LET match == RegexMatch(text)
        value == parseInt(match.number)
        normalizedUnit == StripTrailingS(toLowerCase(match.unit))
        multiplier == PropertyOfMultipliers(normalizedUnit)
    IN  IF ~match.found THEN [date |-> Date(now), logged |-> <<>>]
        ELSE IF multiplier.kind = "undefined"
             THEN [date |-> Date(now), logged |-> <<UnknownUnitError(match.unit, text)>>]
             ELSE [date |-> DateBefore(now, value, multiplier), logged |-> <<>>]

(***************************************************************************)
(* parseTimeAgo of src/unnamed/part_000.                                   *)
(***************************************************************************)
NumberProperty(seconds) == [kind |-> "number", ms |-> Times1000(seconds)]

parseTimeAgo_part000(text, now) ==
    LET number == parseInt(text)
        date ==
            IF Includes(text, K_minute)
            THEN DateBefore(now, number, NumberProperty(60))
            ELSE IF Includes(text, K_hour)
            THEN DateBefore(now, number, NumberProperty(60 * 60))
            ELSE IF Includes(text, K_day)
            THEN DateBefore(now, number, NumberProperty(24 * 60 * 60))
            ELSE IF Includes(text, K_month)
            THEN DateBefore(now, number, NumberProperty(30 * 24 * 60 * 60))
            ELSE IF Includes(text, K_year)
            THEN DateBefore(now, number, NumberProperty(365 * 24 * 60 * 60))
            ELSE Date(now)
    IN  [date |-> date, logged |-> <<>>]

ParseBy(v, text, now) ==
    IF v = "index" THEN parseTimeAgo(text, now) ELSE parseTimeAgo_part000(text, now)

(***************************************************************************)
(* The labels the parser is exercised on.  A label is written from         *)
(*   pre   text before the number                                          *)
(*   n     the number, -1 for none; pad: written with a leading zero       *)
(*   sep   white space between number and word                             *)
(*   word  a unit in one of four spellings, another word, or nothing       *)
(*   suf   text after the word                                             *)
(***************************************************************************)
StartSeconds == 1700000000

Units == {"minute", "hour", "day", "month", "year"}

KeyOf(u) ==
    CASE u = "minute" -> K_minute
      [] u = "hour" -> K_hour
      [] u = "day" -> K_day
      [] u = "month" -> K_month
      [] u = "year" -> K_year

ToUpper(s) ==
    [k \in DOMAIN s |->
        IF s[k] \in Range(LowerChars)
        THEN UpperChars[CHOOSE j \in DOMAIN LowerChars : LowerChars[j] = s[k]]
        ELSE s[k]]

\* 1 "minute", 2 "minutes", 3 "Minutes", 4 "MINUTE"
Spell(u, form) ==
    LET k == KeyOf(u)
    IN  CASE form = 1 -> k
          [] form = 2 -> k \o <<"s">>
          [] form = 3 -> ToUpper(SubStr(k, 1, 1)) \o SubStr(k, 2, Len(k)) \o <<"s">>
          [] form = 4 -> ToUpper(k)

OtherWords ==
    {<<"f", "o", "r", "t", "n", "i", "g", "h", "t", "s">>, <<"c", "o", "n", "s", "t", "r", "u", "c", "t", "o", "r">>, <<"c", "o", "n", "s", "t", "r", "u", "c", "t", "o", "r", "s">>, <<"n", "o", "w">>, <<"m", "i", "n", "u", "t", "e", "s", "s">>, <<"s">>}

WordChoices ==
    {[kind |-> "unit", unit |-> u, form |-> f, chars |-> Spell(u, f)] : u \in Units, f \in 1..4}
    \cup {[kind |-> "other", unit |-> "", form |-> 0, chars |-> w] : w \in OtherWords}
    \cup {[kind |-> "none", unit |-> "", form |-> 0, chars |-> <<>>]}

PlainPrefixes == {<<>>, <<"a", " ">>, <<"j", "u", "s", "t", " ">>}
Prefixes == PlainPrefixes \cup {<<"2", " ", "-", " ">>}
Separators == {<<>>, <<" ">>, <<" ", " ">>}
Suffixes == {<<>>, <<" ", "a", "g", "o">>}

RECURSIVE ToDigits(_)
ToDigits(n) ==
    IF n < 10 THEN <<DigitChars[n + 1]>>
    ELSE ToDigits(n \div 10) \o <<DigitChars[(n % 10) + 1]>>

Inputs ==
    {[pre |-> p, n |-> n, pad |-> z, sep |-> sp, word |-> w, suf |-> sf] :
        p \in Prefixes, n \in -1..MaxMagnitude, z \in BOOLEAN,
        sp \in Separators, w \in WordChoices, sf \in Suffixes}

Render(in) ==
    in.pre
    \o (IF in.n < 0 THEN <<>> ELSE (IF in.pad THEN <<"0">> ELSE <<>>) \o ToDigits(in.n))
    \o in.sep \o in.word.chars \o in.suf

NotCalled == [done |-> FALSE, date |-> InvalidDate, logged |-> <<>>]

InitParse ==
    /\ variant \in {"index", "part000"}
    /\ input \in {in \in Inputs : in.pad => in.n >= 0}
    /\ timeText = Render(input)
    /\ refNow \in {<<StartSeconds, 0>>, <<StartSeconds, 250>>}
    /\ result = NotCalled
    /\ pc = "idle" /\ clock = <<0, 0>> /\ ticks = 0 /\ site = <<>>
    /\ browser = "none" /\ closeCount = 0 /\ pageDefined = FALSE
    /\ retryI = 0
    /\ fnCalls = [k \in {"goto", "rows"} |-> 0]
    /\ delays = [k \in {"goto", "rows"} |-> <<>>]
    /\ rows = <<>> /\ articles = <<>> /\ loopI = 0 /\ isSorted = TRUE
    /\ sortingErrors = <<>> /\ compared = {} /\ log = <<>> /\ shots = <<>>
    /\ error = "none" /\ outcome = "pending" /\ exitCode = -1

\* One call of the variant's parseTimeAgo, `new Date()` giving refNow.
ParseCall ==
    /\ pc = "idle"
    /\ ~result.done
    /\ result' = [done |-> TRUE,
                  date |-> ParseBy(variant, timeText, refNow).date,
                  logged |-> ParseBy(variant, timeText, refNow).logged]
    /\ UNCHANGED <<variant, input, timeText, refNow>>
    /\ UNCHANGED runVars

NextParse == ParseCall

SpecParse == InitParse /\ [][NextParse]_vars

(***************************************************************************)
(* One run of the script.                                                  *)
(***************************************************************************)
Min(a, b) == IF a < b THEN a ELSE b

RECURSIVE Pow2_fromTwo(_)
Pow2_fromTwo(k) == IF k = 0 THEN 2 ELSE 2 * Pow2_fromTwo(k - 1)

RECURSIVE Pow2(_)
Pow2(k) == IF k = 0 THEN 1 ELSE 2 * Pow2(k - 1)

\* "<n> minute(s) ago" as the site writes it
Label(n, u) == ToDigits(n) \o <<" ">> \o Spell(u, IF n = 1 THEN 1 ELSE 2) \o <<" ", "a", "g", "o">>

SiteLabels == {Label(2, "minute"), Label(5, "minute"), Label(10, "minute"), Label(1, "hour")}

Sites ==
    UNION {{[k \in 1..len |-> [title |-> k, timeText |-> f[k]]] : f \in [1..len -> SiteLabels]} :
              len \in 0..MaxRows}

Init ==
    /\ variant \in {"index", "part000"}
    /\ pc = "start"
    /\ clock = <<StartSeconds, 0>>
    /\ ticks = 0
    /\ site \in Sites
    /\ browser = "none" /\ closeCount = 0 /\ pageDefined = FALSE
    /\ retryI = 0
    /\ fnCalls = [k \in {"goto", "rows"} |-> 0]
    /\ delays = [k \in {"goto", "rows"} |-> <<>>]
    /\ rows = <<>> /\ articles = <<>> /\ loopI = 0 /\ isSorted = TRUE
    /\ sortingErrors = <<>> /\ compared = {} /\ log = <<>> /\ shots = <<>>
    /\ error = "none" /\ outcome = "pending" /\ exitCode = -1
    /\ input = [pre |-> <<>>, n |-> -1, pad |-> FALSE, sep |-> <<>>,
                word |-> [kind |-> "none", unit |-> "", form |-> 0, chars |-> <<>>],
                suf |-> <<>>]
    /\ timeText = <<>>
    /\ refNow = <<0, 0>>
    /\ result = NotCalled

\* Time that passes while an awaited call is pending.
TickChoices == IF ticks < MaxTicks THEN {0, 1} ELSE {0}

Pass(d) ==
    /\ clock' = MsAdd(clock, Millis(d))
    /\ ticks' = IF d > 0 THEN ticks + 1 ELSE ticks

NoTime == UNCHANGED <<clock, ticks>>

\* chromium.launch(): outside the try block, so a failure rejects the promise
\* without catch or finally.
Launch ==
    /\ pc = "start"
    /\ \E ok \in BOOLEAN :
          IF ok
          THEN /\ browser' = "open"
               /\ pc' = "context"
               /\ UNCHANGED <<error, outcome>>
          ELSE /\ error' = "launch"
               /\ outcome' = "rejected"
               /\ pc' = "settled"
               /\ UNCHANGED browser
    /\ NoTime
    /\ UNCHANGED <<variant, site, closeCount, pageDefined, retryI, fnCalls, delays,
                   rows, articles, loopI, isSorted, sortingErrors, compared, log, shots,
                   exitCode>>
    /\ UNCHANGED harnessVars

\* browser.newContext(), context.newPage(), and the "Navigating" line
NewPage ==
    /\ pc = "context"
    /\ variant = "index"
    /\ \E ok \in BOOLEAN :
          IF ok
          THEN /\ pageDefined' = TRUE
               /\ log' = Append(log, Line("info", "Navigating", <<>>))
               /\ retryI' = 0
               /\ pc' = "goto"
               /\ UNCHANGED error
          ELSE /\ error' = "context"
               /\ pc' = "catch"
               /\ UNCHANGED <<pageDefined, log, retryI>>
    /\ NoTime
    /\ UNCHANGED <<variant, site, browser, closeCount, fnCalls, delays, rows, articles,
                   loopI, isSorted, sortingErrors, compared, shots, outcome, exitCode>>
    /\ UNCHANGED harnessVars

\* One pass of the loop of retry(fn, retries): the call of fn, and on failure
\* either the throw (last pass) or the logged wait.  `use` names the caller's
\* fn, `next` where the caller goes on with the result.
RetryPass(use, retries, next) ==
    /\ retryI < retries
    /\ fnCalls' = [fnCalls EXCEPT ![use] = @ + 1]
    /\ \E ok \in BOOLEAN, d \in TickChoices :
          IF ok
          THEN /\ pc' = next
               /\ retryI' = 0
               /\ Pass(d)
               /\ UNCHANGED <<error, delays, log>>
          ELSE IF retryI = retries - 1
          THEN /\ error' = use
               /\ pc' = "catch"
               /\ Pass(d)
               /\ UNCHANGED <<retryI, delays, log>>
          ELSE LET delay == retryDelay * Pow2(retryI)
               IN  /\ log' = Append(log, Line("info", "Attempt failed. Retrying", <<retryI + 1, delay>>))
                   /\ delays' = [delays EXCEPT ![use] = Append(@, delay)]
                   /\ clock' = MsAdd(MsAdd(clock, Millis(d)), Millis(delay))
                   /\ ticks' = IF d > 0 THEN ticks + 1 ELSE ticks
                   /\ retryI' = retryI + 1
                   /\ UNCHANGED <<pc, error>>

\* await retry(() => page.goto(...))
Goto ==
    /\ pc = "goto"
    /\ variant = "index"
    /\ RetryPass("goto", maxRetries, "rows")
    /\ UNCHANGED <<variant, site, browser, closeCount, pageDefined, rows, articles,
                   loopI, isSorted, sortingErrors, compared, shots, outcome, exitCode>>
    /\ UNCHANGED harnessVars

\* "Collecting article data..." and await retry(() => page.locator('tr.athing').all())
LocateRows ==
    /\ pc = "rows"
    /\ variant = "index"
    /\ RetryPass("rows", maxRetries, "extract")
    /\ rows' = IF pc' = "extract" THEN site ELSE rows
    /\ UNCHANGED <<variant, site, browser, closeCount, pageDefined, articles,
                   loopI, isSorted, sortingErrors, compared, shots, outcome, exitCode>>
    /\ UNCHANGED harnessVars

\* One pass of the collecting loop: the two textContent() calls, then
\* parseTimeAgo, whose `new Date()` reads the clock at that moment.
ExtractRow ==
    /\ pc = "extract"
    /\ variant = "index"
    /\ Len(articles) < Min(articleLimit, Len(rows))
    /\ \E ok \in BOOLEAN, d \in TickChoices :
          /\ Pass(d)
          /\ IF ok
             THEN LET row == rows[Len(articles) + 1]
                      parsed == parseTimeAgo(row.timeText, clock')
                  IN  /\ articles' = Append(articles,
                                            [title |-> row.title, timeText |-> row.timeText,
                                             timestamp |-> parsed.date, parsedAt |-> clock'])
                      /\ log' = log \o parsed.logged
                      /\ UNCHANGED <<pc, error>>
             ELSE /\ error' = "extract"
                  /\ pc' = "catch"
                  /\ UNCHANGED <<articles, log>>
    /\ UNCHANGED <<variant, site, browser, closeCount, pageDefined, retryI, fnCalls, delays,
                   rows, loopI, isSorted, sortingErrors, compared, shots, outcome, exitCode>>
    /\ UNCHANGED harnessVars

\* End of the collecting loop: "Collected n articles", isSorted = true,
\* sortingErrors = [], i = 1.
StartScan ==
    /\ pc = "extract"
    /\ variant = "index"
    /\ Len(articles) >= Min(articleLimit, Len(rows))
    /\ log' = Append(log, Line("info", "Collected articles", Len(articles)))
    /\ isSorted' = TRUE
    /\ sortingErrors' = <<>>
    /\ loopI' = 1
    /\ pc' = "scan"
    /\ NoTime
    /\ UNCHANGED <<variant, site, browser, closeCount, pageDefined, retryI, fnCalls, delays,
                   rows, articles, compared, shots, error, outcome, exitCode>>
    /\ UNCHANGED harnessVars

\* Date comparison: getTime() === getTime() and >, both false on an Invalid Date
SameTime_toTheSecond(a, b) == a.valid /\ b.valid /\ a.t[1] = b.t[1]
SameTime(a, b) == a.valid /\ b.valid /\ a.t = b.t
Later_reversed(a, b) == a.valid /\ b.valid /\ MsLess(a.t, b.t)
Later(a, b) == a.valid /\ b.valid /\ MsLess(b.t, a.t)

\* Math.round((curr.timestamp - prev.timestamp) / 1000 / 60) for curr later than prev
MinutesBetween(curr, prev) ==
    LET diff == MsSub(curr.t, prev.t)
    IN  (diff[1] + 30) \div 60

\* One pass of the scan, i = loopI; articles[i] of the code is articles[loopI + 1] here.
ScanPass ==
    /\ pc = "scan"
    /\ variant = "index"
    /\ loopI < Len(articles)
    /\ compared' = compared \cup {loopI}
    /\ LET curr == articles[loopI + 1]
           prev == articles[loopI]
       IN  IF SameTime(curr.timestamp, prev.timestamp)
           THEN /\ log' = Append(log, Line("info", "Skipping comparison", loopI))
                /\ loopI' = loopI + 1
                /\ UNCHANGED <<sortingErrors, isSorted, pc>>
           ELSE IF Later(curr.timestamp, prev.timestamp)
           THEN /\ sortingErrors' =
                       Append(sortingErrors,
                              [position |-> loopI, article1 |-> prev, article2 |-> curr,
                               timeDiff |-> MinutesBetween(curr.timestamp, prev.timestamp)])
                /\ isSorted' = FALSE
                /\ pc' = "report"
                /\ UNCHANGED <<log, loopI>>
           ELSE /\ loopI' = loopI + 1
                /\ UNCHANGED <<sortingErrors, isSorted, pc, log>>
    /\ NoTime
    /\ UNCHANGED <<variant, site, browser, closeCount, pageDefined, retryI, fnCalls, delays,
                   rows, articles, shots, error, outcome, exitCode>>
    /\ UNCHANGED harnessVars

\* The loop condition i < articles.length fails
ScanEnd ==
    /\ pc = "scan"
    /\ variant = "index"
    /\ loopI >= Len(articles)
    /\ pc' = "report"
    /\ NoTime
    /\ UNCHANGED <<variant, site, browser, closeCount, pageDefined, retryI, fnCalls, delays,
                   rows, articles, loopI, isSorted, sortingErrors, compared, log, shots,
                   error, outcome, exitCode>>
    /\ UNCHANGED harnessVars

\* captureScreenshot(page, name): fs.mkdir and page.screenshot succeed or throw
captureScreenshot(name, ok) == Append(shots, [name |-> name, ok |-> ok])

\* The report lines of one recorded inversion (lines 111-113)
ErrorLines(e) ==
    <<Line("error", "Position - Time difference", <<e.position, e.timeDiff>>),
      Line("error", "Earlier", <<e.article1.title, e.article1.timeText>>),
      Line("error", "Later", <<e.article2.title, e.article2.timeText>>)>>

RECURSIVE AllErrorLines(_)
AllErrorLines(errs) ==
    IF errs = <<>> THEN <<>> ELSE ErrorLines(Head(errs)) \o AllErrorLines(Tail(errs))

\* if (isSorted): the "Validation passed" line
ReportPassed ==
    /\ pc = "report"
    /\ variant = "index"
    /\ isSorted
    /\ log' = Append(log, Line("info", "Validation passed", <<>>))
    /\ pc' = "finally"
    /\ NoTime
    /\ UNCHANGED <<variant, site, browser, closeCount, pageDefined, retryI, fnCalls, delays,
                   rows, articles, loopI, isSorted, sortingErrors, compared, shots,
                   error, outcome, exitCode>>
    /\ UNCHANGED harnessVars

\* else: the failure report, then the 'sorting_failure' screenshot, which is
\* awaited inside the try block
ReportFailed ==
    /\ pc = "report"
    /\ variant = "index"
    /\ ~isSorted
    /\ \E ok \in BOOLEAN :
          /\ shots' = captureScreenshot("sorting_failure", ok)
          /\ IF ok
             THEN /\ log' = log \o <<Line("error", "Validation failed", <<>>),
                                     Line("error", "Sorting errors:", <<>>)>>
                                \o AllErrorLines(sortingErrors)
                                \o <<Line("info", "Screenshot saved", "sorting_failure")>>
                  /\ pc' = "finally"
                  /\ UNCHANGED error
             ELSE /\ log' = log \o <<Line("error", "Validation failed", <<>>),
                                     Line("error", "Sorting errors:", <<>>)>>
                                \o AllErrorLines(sortingErrors)
                  /\ error' = "screenshot"
                  /\ pc' = "catch"
    /\ NoTime
    /\ UNCHANGED <<variant, site, browser, closeCount, pageDefined, retryI, fnCalls, delays,
                   rows, articles, loopI, isSorted, sortingErrors, compared,
                   outcome, exitCode>>
    /\ UNCHANGED harnessVars

\* catch (error): two error lines, the 'error' screenshot when page is set
\* (its own failure is only logged), then `throw error`
Catch ==
    /\ pc = "catch"
    /\ variant = "index"
    /\ IF pageDefined
       THEN \E ok \in BOOLEAN :
               /\ shots' = captureScreenshot("error", ok)
               /\ log' = log \o <<Line("error", "An error occurred", error),
                                  Line("error", "stack", error),
                                  IF ok THEN Line("info", "Error screenshot saved", <<>>)
                                  ELSE Line("error", "Failed to capture error screenshot", <<>>)>>
       ELSE /\ log' = log \o <<Line("error", "An error occurred", error),
                               Line("error", "stack", error)>>
            /\ UNCHANGED shots
    /\ pc' = "finally"
    /\ NoTime
    /\ UNCHANGED <<variant, site, browser, closeCount, pageDefined, retryI, fnCalls, delays,
                   rows, articles, loopI, isSorted, sortingErrors, compared,
                   error, outcome, exitCode>>
    /\ UNCHANGED harnessVars

\* await browser.close() of the finally block
Close_unlessError ==
    IF error = "none"
    THEN browser' = "closed" /\ closeCount' = closeCount + 1
    ELSE UNCHANGED <<browser, closeCount>>

Close ==
    /\ browser' = "closed"
    /\ closeCount' = closeCount + 1

\* finally: browser.close() and the "Total execution time" line; the promise
\* then settles, rejected when the catch block re-threw
Finally ==
    /\ pc = "finally"
    /\ variant = "index"
    /\ Close
    /\ log' = Append(log, Line("info", "Total execution time", <<>>))
    /\ outcome' = IF error = "none" THEN "resolved" ELSE "rejected"
    /\ pc' = "settled"
    /\ NoTime
    /\ UNCHANGED <<variant, site, pageDefined, retryI, fnCalls, delays,
                   rows, articles, loopI, isSorted, sortingErrors, compared, shots,
                   error, exitCode>>
    /\ UNCHANGED harnessVars

\* validateHNSorting().catch(console.error): the handler prints a rejection
\* and returns, so no rejection is left unhandled; nothing sets
\* process.exitCode and nothing calls process.exit, so Node ends with status
\* 0 unless a rejection was left unhandled.
RejectionHandled == TRUE

TopLevel ==
    /\ pc = "settled"
    /\ log' = IF outcome = "rejected"
              THEN Append(log, Line("console.error", "rejection", error))
              ELSE log
    /\ exitCode' = IF outcome = "rejected" /\ ~RejectionHandled THEN 1 ELSE 0
    /\ pc' = "exited"
    /\ NoTime
    /\ UNCHANGED <<variant, site, browser, closeCount, pageDefined, retryI, fnCalls, delays,
                   rows, articles, loopI, isSorted, sortingErrors, compared, shots,
                   error, outcome>>
    /\ UNCHANGED harnessVars

(***************************************************************************)
(* The run of src/unnamed/part_000: no retry, no screenshot, and a catch   *)
(* block that prints the error and does not re-throw.                      *)
(***************************************************************************)
\* newContext, newPage, the "Navigating" line and page.goto
P0_Navigate ==
    /\ pc = "context"
    /\ variant = "part000"
    /\ \E ok \in BOOLEAN, d \in TickChoices :
          /\ Pass(d)
          /\ IF ok
             THEN /\ pageDefined' = TRUE
                  /\ fnCalls' = [fnCalls EXCEPT !["goto"] = @ + 1]
                  /\ log' = Append(log, Line("console.log", "Navigating", <<>>))
                  /\ pc' = "rows"
                  /\ UNCHANGED error
             ELSE /\ error' = "goto"
                  /\ pc' = "catch"
                  /\ UNCHANGED <<pageDefined, fnCalls, log>>
    /\ UNCHANGED <<variant, site, browser, closeCount, retryI, delays, rows, articles,
                   loopI, isSorted, sortingErrors, compared, shots, outcome, exitCode>>
    /\ UNCHANGED harnessVars

\* "Collecting article data..." and page.locator('tr.athing').all()
P0_LocateRows ==
    /\ pc = "rows"
    /\ variant = "part000"
    /\ \E ok \in BOOLEAN, d \in TickChoices :
          /\ Pass(d)
          /\ fnCalls' = [fnCalls EXCEPT !["rows"] = @ + 1]
          /\ IF ok
             THEN /\ rows' = site
                  /\ pc' = "extract"
                  /\ UNCHANGED error
             ELSE /\ error' = "rows"
                  /\ pc' = "catch"
                  /\ UNCHANGED rows
    /\ UNCHANGED <<variant, site, browser, closeCount, pageDefined, retryI, delays, articles,
                   loopI, isSorted, sortingErrors, compared, log, shots, outcome, exitCode>>
    /\ UNCHANGED harnessVars

P0_ExtractRow ==
    /\ pc = "extract"
    /\ variant = "part000"
    /\ Len(articles) < Min(100, Len(rows))
    /\ \E ok \in BOOLEAN, d \in TickChoices :
          /\ Pass(d)
          /\ IF ok
             THEN LET row == rows[Len(articles) + 1]
                      parsed == parseTimeAgo_part000(row.timeText, clock')
                  IN  /\ articles' = Append(articles,
                                            [title |-> row.title, timeText |-> row.timeText,
                                             timestamp |-> parsed.date, parsedAt |-> clock'])
                      /\ UNCHANGED <<pc, error>>
             ELSE /\ error' = "extract"
                  /\ pc' = "catch"
                  /\ UNCHANGED articles
    /\ UNCHANGED <<variant, site, browser, closeCount, pageDefined, retryI, fnCalls, delays,
                   rows, loopI, isSorted, sortingErrors, compared, log, shots, outcome,
                   exitCode>>
    /\ UNCHANGED harnessVars

P0_StartScan ==
    /\ pc = "extract"
    /\ variant = "part000"
    /\ Len(articles) >= Min(100, Len(rows))
    /\ log' = Append(log, Line("console.log", "Collected articles", Len(articles)))
    /\ isSorted' = TRUE
    /\ loopI' = 1
    /\ pc' = "scan"
    /\ NoTime
    /\ UNCHANGED <<variant, site, browser, closeCount, pageDefined, retryI, fnCalls, delays,
                   rows, articles, sortingErrors, compared, shots, error, outcome, exitCode>>
    /\ UNCHANGED harnessVars

P0_ScanPass ==
    /\ pc = "scan"
    /\ variant = "part000"
    /\ loopI < Len(articles)
    /\ compared' = compared \cup {loopI}
    /\ IF Later(articles[loopI + 1].timestamp, articles[loopI].timestamp)
       THEN /\ log' = log \o <<Line("console.error", "Sorting error detected at position", loopI),
                               Line("console.error", "first", articles[loopI].title),
                               Line("console.error", "second", articles[loopI + 1].title)>>
            /\ isSorted' = FALSE
            /\ pc' = "report"
            /\ UNCHANGED loopI
       ELSE /\ loopI' = loopI + 1
            /\ UNCHANGED <<log, isSorted, pc>>
    /\ NoTime
    /\ UNCHANGED <<variant, site, browser, closeCount, pageDefined, retryI, fnCalls, delays,
                   rows, articles, sortingErrors, shots, error, outcome, exitCode>>
    /\ UNCHANGED harnessVars

P0_ScanEnd ==
    /\ pc = "scan"
    /\ variant = "part000"
    /\ loopI >= Len(articles)
    /\ pc' = "report"
    /\ NoTime
    /\ UNCHANGED <<variant, site, browser, closeCount, pageDefined, retryI, fnCalls, delays,
                   rows, articles, loopI, isSorted, sortingErrors, compared, log, shots,
                   error, outcome, exitCode>>
    /\ UNCHANGED harnessVars

P0_Report ==
    /\ pc = "report"
    /\ variant = "part000"
    /\ log' = Append(log, Line("console.log",
                               IF isSorted THEN "Validation passed" ELSE "Validation failed",
                               <<>>))
    /\ pc' = "finally"
    /\ NoTime
    /\ UNCHANGED <<variant, site, browser, closeCount, pageDefined, retryI, fnCalls, delays,
                   rows, articles, loopI, isSorted, sortingErrors, compared, shots,
                   error, outcome, exitCode>>
    /\ UNCHANGED harnessVars

\* catch (error) { console.error(...) }: the error is not thrown again
P0_Catch ==
    /\ pc = "catch"
    /\ variant = "part000"
    /\ log' = Append(log, Line("console.error", "An error occurred", error))
    /\ error' = "none"
    /\ pc' = "finally"
    /\ NoTime
    /\ UNCHANGED <<variant, site, browser, closeCount, pageDefined, retryI, fnCalls, delays,
                   rows, articles, loopI, isSorted, sortingErrors, compared, shots,
                   outcome, exitCode>>
    /\ UNCHANGED harnessVars

P0_Finally ==
    /\ pc = "finally"
    /\ variant = "part000"
    /\ Close
    /\ outcome' = "resolved"
    /\ pc' = "settled"
    /\ NoTime
    /\ UNCHANGED <<variant, site, pageDefined, retryI, fnCalls, delays,
                   rows, articles, loopI, isSorted, sortingErrors, compared, log, shots,
                   error, exitCode>>
    /\ UNCHANGED harnessVars

Next ==
    \/ Launch
    \/ NewPage
    \/ Goto
    \/ LocateRows
    \/ ExtractRow
    \/ StartScan
    \/ ScanPass
    \/ ScanEnd
    \/ ReportPassed
    \/ ReportFailed
    \/ Catch
    \/ Finally
    \/ TopLevel
    \/ P0_Navigate
    \/ P0_LocateRows
    \/ P0_ExtractRow
    \/ P0_StartScan
    \/ P0_ScanPass
    \/ P0_ScanEnd
    \/ P0_Report
    \/ P0_Catch
    \/ P0_Finally

Spec == Init /\ [][Next]_vars

(***************************************************************************)
(* Properties.                                                             *)
(***************************************************************************)
\* The multipliers as the specification states them, in thousands of
\* milliseconds: 60000, 3600000, 86400000, 2592000000 and 31536000000 ms.
StatedThousandMs(u) ==
    CASE u = "minute" -> 60
      [] u = "hour" -> 3600
      [] u = "day" -> 86400
      [] u = "month" -> 2592000
      [] u = "year" -> 31536000

WellFormed == input.pre = <<>> /\ input.n >= 0 /\ input.word.kind = "unit"

\* C1: for a label "<n> <unit>..." with unit one of minute, hour, day, month,
\* year in any spelling (singular, plural, any letter case), parseTimeAgo of
\* src/index.js returns now - n * multiplier, the multipliers being 60000,
\* 3600000, 86400000, 2592000000 and 31536000000 ms; the spelling of the unit
\* does not change the result.
C1_UnitMultipliers ==
    (result.done /\ variant = "index" /\ WellFormed)
        => result.date =
              Date(MsSub(refNow, <<input.n * StatedThousandMs(input.word.unit), 0>>))

C1_Witness ==
    /\ result.done /\ variant = "index" /\ WellFormed
    /\ input.word.unit = "month" /\ input.word.form = 3 /\ input.n = 2
    /\ input.suf # <<>>
    /\ result.date = Date(<<StartSeconds - 5184000, refNow[2]>>)

\* C5: for a label whose number is followed by a word that is none of the
\* five units, parseTimeAgo of src/index.js returns exactly now and writes an
\* "Unknown time unit" error line.
C5_UnknownUnitFallsBack ==
    (result.done /\ variant = "index" /\ input.pre = <<>> /\ input.n >= 0
       /\ input.word.kind = "other")
        => /\ result.date = Date(refNow)
           /\ \E k \in DOMAIN result.logged :
                 result.logged[k].level = "error" /\ result.logged[k].msg = "Unknown time unit"

\* C6: for a label with no digit in it ("just now", "a day ago"),
\* parseTimeAgo (of either script) returns exactly now.
C6_NoDigitFallsBack ==
    (result.done /\ input.n < 0 /\ input.pre \in PlainPrefixes)
        => result.date = Date(refNow)

(***************************************************************************)
(* Properties of a run.                                                    *)
(***************************************************************************)
\* The labels of end-to-end scenario C
ScenarioC == <<Label(10, "minute"), Label(10, "minute"), Label(1, "hour")>>

\* C2: within one run two entries with the same label get equal instants,
\* whatever time passes between their parsing, and the listing of scenario C
\* ends the scan with sorted = true and no inversion.
C2_OneReferenceNow ==
    variant = "index"
        => /\ \A i, j \in DOMAIN articles :
                 articles[i].timeText = articles[j].timeText
                     => articles[i].timestamp = articles[j].timestamp
           /\ (pc = "report" /\ [k \in DOMAIN articles |-> articles[k].timeText] = ScenarioC)
                 => (isSorted /\ sortingErrors = <<>>)

\* curr is strictly later than prev, as instants
StrictlyLater(curr, prev) ==
    \/ curr.timestamp.t[1] > prev.timestamp.t[1]
    \/ (curr.timestamp.t[1] = prev.timestamp.t[1] /\ curr.timestamp.t[2] > prev.timestamp.t[2])

\* Indices i (as the code counts them, from 1) at which entry i is later than entry i-1
Inversions == {i \in 1..(Len(articles) - 1) : StrictlyLater(articles[i + 1], articles[i])}

\* C3: when every adjacent pair of the collected entries is non-increasing in
\* instant (ties allowed; also with no entry or one), the scan ends with
\* isSorted = true and no recorded inversion.
C3_SortedPasses ==
    (variant = "index" /\ pc = "report" /\ Inversions = {})
        => (isSorted /\ sortingErrors = <<>>)

C3_Witness ==
    /\ variant = "index" /\ pc = "report" /\ Inversions = {}
    /\ Len(articles) = 3
    /\ articles[1].timestamp = articles[2].timestamp
    /\ articles[3].timestamp # articles[2].timestamp
    /\ compared = {1, 2}
    /\ isSorted

\* C4: when the collected entries contain an inversion, the scan records
\* exactly one, at the smallest index k with entry k strictly later than entry
\* k-1, with these two entries, sets isSorted = false and examines no pair
\* after index k.
C4_FirstInversionOnly ==
    (variant = "index" /\ pc = "report" /\ Inversions # {})
        => LET k == CHOOSE i \in Inversions : \A j \in Inversions : i <= j
           IN  /\ Len(sortingErrors) = 1
               /\ sortingErrors[1].position = k
               /\ sortingErrors[1].article1 = articles[k]
               /\ sortingErrors[1].article2 = articles[k + 1]
               /\ ~isSorted
               /\ compared = 1..k

C4_Witness ==
    /\ variant = "index" /\ pc = "report"
    /\ Inversions = {1, 2}
    /\ Len(sortingErrors) = 1 /\ sortingErrors[1].position = 1
    /\ compared = {1}

Ended == pc \in {"settled", "exited"}

\* C7: once the browser has been launched it is closed exactly once on every
\* way out of validateHNSorting (of either script), and never more than once.
C7_ClosedExactlyOnce ==
    /\ closeCount <= 1
    /\ (Ended /\ error # "launch") => (browser = "closed" /\ closeCount = 1)
    /\ (browser = "open") => closeCount = 0

\* The failure screenshot threw, the error screenshot threw too, and the run ended.
C7_Witness ==
    /\ Ended /\ variant = "index" /\ closeCount = 1 /\ browser = "closed"
    /\ error = "screenshot"
    /\ Len(shots) = 2 /\ ~shots[1].ok /\ ~shots[2].ok

Logged(msg) == \E k \in DOMAIN log : log[k].msg = msg

\* C8: a run that ends with a runtime error (navigation retries exhausted, the
\* row lookup or a row extraction failing) has logged it, has attempted the
\* error screenshot, and propagates the error so that the process ends with a
\* non-zero exit status.
C8_ErrorGivesNonZeroExit ==
    (variant = "index" /\ pc = "exited" /\ error \in {"goto", "rows", "extract"})
        => /\ Logged("An error occurred")
           /\ \E k \in DOMAIN shots : shots[k].name = "error"
           /\ outcome = "rejected"
           /\ exitCode # 0

\* The delays retry waits between calls: retryDelay * 2^i after the i-th failed call
StatedDelays(n) == [i \in 1..n |-> retryDelay * (2 ^ (i - 1))]

RetryUses == {"goto", "rows"}

InRetry(use) == pc = use

\* C9: retry calls fn at most maxRetries (3) times; it stops at the first call
\* that succeeds; after the i-th failed call other than the last it waits
\* retryDelay * 2^i ms; when all calls failed it throws after the last one
\* without a further wait, and the run is aborted.
C9_RetryBackoff ==
    variant = "index" =>
        \A use \in RetryUses :
            /\ fnCalls[use] <= maxRetries
            /\ delays[use] = StatedDelays(Len(delays[use]))
            /\ InRetry(use) => (Len(delays[use]) = fnCalls[use] /\ fnCalls[use] < maxRetries)
            /\ (~InRetry(use) /\ fnCalls[use] > 0) => Len(delays[use]) = fnCalls[use] - 1
            /\ error = use
                  => /\ fnCalls[use] = maxRetries
                     /\ pc \in {"catch", "finally", "settled", "exited"}
                     /\ articles = <<>>
                     /\ (pc = "exited" => outcome = "rejected")
            /\ (use = "rows" /\ fnCalls[use] > 0) => error # "goto"

C9_Witness ==
    /\ variant = "index"
    /\ fnCalls["goto"] = 3 /\ delays["goto"] = <<1000, 2000>> /\ error = "none"
    /\ fnCalls["rows"] = 3 /\ delays["rows"] = <<1000, 2000>>
    /\ pc = "exited" /\ outcome = "resolved"

\* C10: a run whose scan found an inversion never takes the runtime-error
\* path: no "An error occurred" line, no 'error' screenshot, no exception
\* thrown out of validateHNSorting, whatever the failure screenshot does.
C10_InversionIsNotAnError ==
    (variant = "index" /\ sortingErrors # <<>>)
        => /\ error = "none"
           /\ ~Logged("An error occurred")
           /\ \A k \in DOMAIN shots : shots[k].name # "error"
           /\ outcome # "rejected"

====
